---- MODULE Spec2Model ----
(***************************************************************************)
(* Game-tree search engine of the team42_A0 competitive-sudoku agent:      *)
(* move generator, position evaluator, Zobrist hasher, transposition       *)
(* table, the alpha-beta search with its root driver find_best_move, and  *)
(* the agent's entry point compute_best_move.                              *)
(*                                                                         *)
(* Conventions of the model                                                *)
(*  - a square is <<row, col>>, a move is [square |-> sq, value |-> v];    *)
(*  - Python's None / optional value is a sequence of length 0 or 1;       *)
(*  - an evaluation (Python float) is an exact reduced fraction <<p, q>>,  *)
(*    q > 0; float('-inf') is <<-1, 0>> and float('inf') is <<1, 0>>;      *)
(*  - a 64-bit Zobrist word is the set of the positions of its 1 bits and  *)
(*    every key of the key table is a distinct single bit (collisions are  *)
(*    out of scope); XOR is the symmetric difference.                      *)
(***************************************************************************)
EXTENDS Integers, Sequences, FiniteSets, TLC

VARIABLES
    game_state,   \* the GameState object shared by the whole search
    stack,        \* call stack: find_best_move / alpha_beta frames
    ret,          \* value returned by the call that returned last
    result,       \* what the outermost call returned (set when stack empties)
    tt,           \* AlphaBetaSearch.tt : (hash, original_player) -> (depth, value)
    use_tt,       \* AlphaBetaSearch.use_tt
    tt_probes,    \* AlphaBetaSearch.tt_probes
    tt_hits,      \* AlphaBetaSearch.tt_hits
    tt_stores,    \* AlphaBetaSearch.tt_stores
    call,         \* the outermost call: function, depth and the state it got
    returned,     \* history: the alpha_beta call that returned last
    root_values,  \* history: value found for each root move of find_best_move
    n_evals,      \* history: number of evaluate_state calls
    n_cutoffs,    \* history: number of pruning breaks that skipped a move
    n_calls,      \* number of outermost calls made on this AlphaBetaSearch
    cbm,          \* SudokuAI.compute_best_move: position and locals
    proposed      \* history: the moves handed to propose_move, in order

vars == <<game_state, stack, ret, result, tt, use_tt, tt_probes, tt_hits,
          tt_stores, call, returned, root_values, n_evals, n_cutoffs, n_calls,
          cbm, proposed>>

-----------------------------------------------------------------------------
(* Board and game state (competitive_sudoku.sudoku)                        *)

m == 2
n == 2
N == m * n
empty == 0

Squares == (0 .. N - 1) \X (0 .. N - 1)

None == << >>
Some(x) == << x >>

Move(sq, v) == [square |-> sq, value |-> v]
TabooMove(sq, v) == [square |-> sq, value |-> v]

square2index(sq) == N * sq[1] + sq[2]
get(board, sq) == board[square2index(sq)]
put(board, sq, v) == [board EXCEPT ![square2index(sq)] = v]

player_squares(gs) ==
    IF gs.current_player = 1 THEN gs.allowed_squares1 ELSE gs.allowed_squares2

is_classic_game(gs) == gs.allowed_squares1 = None

SeqToSet(s) == { s[x] : x \in 1 .. Len(s) }

-----------------------------------------------------------------------------
(* Exact arithmetic for the float evaluations                              *)

NegInf == << -1, 0 >>
PosInf == << 1, 0 >>

Abs(x) == IF x < 0 THEN -x ELSE x

RECURSIVE GCD(_, _)
GCD(a, b) == IF b = 0 THEN a ELSE GCD(b, a % b)

Rat(p, q) ==
    LET g == GCD(Abs(p), q)
    IN  IF p = 0 THEN << 0, 1 >> ELSE << p \div g, q \div g >>

RInt(x) == << x, 1 >>
RAdd(a, b) == Rat(a[1] * b[2] + b[1] * a[2], a[2] * b[2])
RSub(a, b) == Rat(a[1] * b[2] - b[1] * a[2], a[2] * b[2])
RMul(a, b) == Rat(a[1] * b[1], a[2] * b[2])

\* a <= b on evaluations, infinities included
LessEq(a, b) ==
    IF a = NegInf \/ b = PosInf THEN TRUE
    ELSE IF a = PosInf \/ b = NegInf THEN FALSE
    ELSE a[1] * b[2] <= b[1] * a[2]

Less(a, b) == ~ LessEq(b, a)
max(a, b) == IF Less(a, b) THEN b ELSE a
min(a, b) == IF Less(b, a) THEN b ELSE a

-----------------------------------------------------------------------------
(* Move generator (sudokuai.py)                                            *)

\* mutant of _is_valid_move: the column check is missing
_is_valid_move_no_column(board, row, col, value) ==
    LET region_row == (row \div m) * m
        region_col == (col \div n) * n
    IN  /\ \A j \in 0 .. N - 1 : get(board, << row, j >>) # value
        /\ \A i \in region_row .. region_row + m - 1 :
             \A j \in region_col .. region_col + n - 1 :
                get(board, << i, j >>) # value

\* mutant of _is_valid_move: the row check is missing
_is_valid_move_no_row(board, row, col, value) ==
    LET region_row == (row \div m) * m
        region_col == (col \div n) * n
    IN  /\ \A i \in 0 .. N - 1 : get(board, << i, col >>) # value
        /\ \A i \in region_row .. region_row + m - 1 :
             \A j \in region_col .. region_col + n - 1 :
                get(board, << i, j >>) # value

_is_valid_move(board, row, col, value) ==
    LET region_row == (row \div m) * m
        region_col == (col \div n) * n
    IN  /\ \A j \in 0 .. N - 1 : get(board, << row, j >>) # value
        /\ \A i \in 0 .. N - 1 : get(board, << i, col >>) # value
        /\ \A i \in region_row .. region_row + m - 1 :
             \A j \in region_col .. region_col + n - 1 :
                get(board, << i, j >>) # value

\* the moves the inner loop over value appends for square (i, j)
SquareMoves(gs, i, j) ==
    LET ps == player_squares(gs)
        keep(v) == /\ TabooMove(<< i, j >>, v) \notin SeqToSet(gs.taboo_moves)
                   /\ _is_valid_move(gs.board, i, j, v)
        vals == SelectSeq([v \in 1 .. N |-> v], keep)
    IN  IF get(gs.board, << i, j >>) # empty THEN << >>
        ELSE IF ps # None /\ << i, j >> \notin ps[1] THEN << >>
        ELSE [x \in 1 .. Len(vals) |-> Move(<< i, j >>, vals[x])]

RECURSIVE MovesFrom(_, _)
MovesFrom(gs, k) ==
    IF k = N * N THEN << >>
    ELSE SquareMoves(gs, k \div N, k % N) \o MovesFrom(gs, k + 1)

get_all_allowed_moves(gs) == MovesFrom(gs, 0)

-----------------------------------------------------------------------------
(* Position evaluator (evaluation.py)                                      *)

W_SCORE == 10
W_POTENTIAL == 1
W_TERRITORY == << 5, 2 >>
W_CENTRALITY == << 2, 5 >>

count_constraint_fills(board, square, value) ==
    LET row == square[1]
        col == square[2]
        region_row == (row \div m) * m
        region_col == (col \div n) * n
        row_full == \A j \in 0 .. N - 1 :
                       << row, j >> = square \/ get(board, << row, j >>) # empty
        col_full == \A i \in 0 .. N - 1 :
                       << i, col >> = square \/ get(board, << i, col >>) # empty
        region_full == \A i \in region_row .. region_row + m - 1 :
                         \A j \in region_col .. region_col + n - 1 :
                            << i, j >> = square \/ get(board, << i, j >>) # empty
    IN  (IF row_full THEN 1 ELSE 0) + (IF col_full THEN 1 ELSE 0)
          + (IF region_full THEN 1 ELSE 0)

ConstraintPoints(constraints) ==
    IF constraints = 1 THEN 1
    ELSE IF constraints = 2 THEN 3
    ELSE IF constraints = 3 THEN 7
    ELSE 0

RECURSIVE PotentialSum(_, _, _)
PotentialSum(board, moves, x) ==
    IF x > Len(moves) THEN 0
    ELSE ConstraintPoints(count_constraint_fills(board, moves[x].square, moves[x].value))
           + PotentialSum(board, moves, x + 1)

\* the current player is set to `player` for the generator call and put back
calculate_scoring_potential(gs, player) ==
    LET valid_moves == get_all_allowed_moves([gs EXCEPT !.current_player = player])
    IN  PotentialSum(gs.board, valid_moves, 1)

count_exclusive_squares(gs, player) ==
    LET opponent == 3 - player
        player_allowed == IF player = 1 THEN gs.allowed_squares1 ELSE gs.allowed_squares2
        opponent_allowed == IF opponent = 1 THEN gs.allowed_squares1 ELSE gs.allowed_squares2
    IN  IF is_classic_game(gs) THEN 0
        ELSE IF player_allowed = None THEN 0
        ELSE Cardinality({ sq \in Squares :
                 /\ get(gs.board, sq) = empty
                 /\ sq \in player_allowed[1]
                 /\ ~ (opponent_allowed = None \/ sq \in opponent_allowed[1]) })

\* 1.0 - distance / max_distance with center = (N - 1) / 2
CentralityValue(sq) ==
    LET twice_distance == Abs(2 * sq[1] - (N - 1)) + Abs(2 * sq[2] - (N - 1))
    IN  Rat(2 * (N - 1) - twice_distance, 2 * (N - 1))

RECURSIVE CentralitySum(_, _)
CentralitySum(moves, x) ==
    IF x > Len(moves) THEN RInt(0)
    ELSE RAdd(CentralityValue(moves[x].square), CentralitySum(moves, x + 1))

calculate_centrality_score(board, moves) ==
    IF moves = << >> THEN RInt(0)
    ELSE RMul(CentralitySum(moves, 1), Rat(1, Len(moves)))

\* mutant of OriginalMoves: the side to move is not set before generating
OriginalMoves_of_mover(gs, original_player) == get_all_allowed_moves(gs)

\* lines 242-244: the moves of original_player, generated after setting the
\* side to move to original_player
OriginalMoves(gs, original_player) ==
    get_all_allowed_moves([gs EXCEPT !.current_player = original_player])

\* evaluate_state returns the evaluation and leaves the shared state with the
\* side to move it assigned last: line 256 reads the field back from the same
\* object, so the side to move stays at `opponent`.
evaluate_state(gs, original_player) ==
    LET opponent == 3 - original_player
        score_diff == gs.scores[original_player] - gs.scores[opponent]
        territory_diff == count_exclusive_squares(gs, original_player)
                            - count_exclusive_squares(gs, opponent)
        scoring_potential_diff == calculate_scoring_potential(gs, original_player)
                                    - calculate_scoring_potential(gs, opponent)
        original_game == [gs EXCEPT !.current_player = original_player]
        original_moves == OriginalMoves(gs, original_player)
        original_centrality == calculate_centrality_score(gs.board, original_moves)
        opponent_game == [original_game EXCEPT !.current_player = opponent]
        opponent_moves == get_all_allowed_moves(opponent_game)
        opponent_centrality == calculate_centrality_score(gs.board, opponent_moves)
        restored == [opponent_game EXCEPT !.current_player = opponent_game.current_player]
        centrality_diff == RSub(original_centrality, opponent_centrality)
        evaluation ==
            RAdd(RAdd(RInt(score_diff * W_SCORE), RInt(scoring_potential_diff * W_POTENTIAL)),
                 RAdd(RMul(RInt(territory_diff), W_TERRITORY),
                      RMul(centrality_diff, W_CENTRALITY)))
    IN  [value |-> evaluation, game_state |-> restored]

-----------------------------------------------------------------------------
(* Zobrist hasher (zobrist_transposition_table.py)                         *)

XOR(h, key) == (h \ key) \cup (key \ h)

\* the key tables: every entry is one distinct bit
table(k, value) == { k * (N + 1) + value }
owner_table(k, player_index) == { N * N * (N + 1) + 2 * k + player_index }
taboo_table(k, value) == { N * N * (N + 1) + 2 * N * N + k * (N + 1) + value }
side_to_move == { 2 * N * N * (N + 1) + 2 * N * N }

RECURSIVE HashBoard(_, _, _)
HashBoard(h, board, k) ==
    IF k = N * N THEN h
    ELSE HashBoard(IF board[k] # empty THEN XOR(h, table(k, board[k])) ELSE h,
                   board, k + 1)

RECURSIVE HashOwners(_, _, _, _)
HashOwners(h, squares, player_index, x) ==
    IF x > Len(squares) THEN h
    ELSE HashOwners(XOR(h, owner_table(square2index(squares[x]), player_index)),
                    squares, player_index, x + 1)

\* mutant of HashTaboo: the key is taken at the entry's position in the list
RECURSIVE HashTaboo_by_position(_, _, _)
HashTaboo_by_position(h, taboo_moves, x) ==
    IF x > Len(taboo_moves) THEN h
    ELSE HashTaboo_by_position(XOR(h, taboo_table(x - 1, taboo_moves[x].value)),
                               taboo_moves, x + 1)

RECURSIVE HashTaboo(_, _, _)
HashTaboo(h, taboo_moves, x) ==
    IF x > Len(taboo_moves) THEN h
    ELSE HashTaboo(XOR(h, taboo_table(square2index(taboo_moves[x].square),
                                      taboo_moves[x].value)),
                   taboo_moves, x + 1)

compute_hash(gs) ==
    LET h1 == HashBoard({}, gs.board, 0)
        h2 == HashOwners(h1, gs.occupied_squares1, 0, 1)
        h3 == HashOwners(h2, gs.occupied_squares2, 1, 1)
        h4 == HashTaboo(h3, gs.taboo_moves, 1)
    IN  IF gs.current_player = 2 THEN XOR(h4, side_to_move) ELSE h4

xor_square_value(h, square, value) == XOR(h, table(square2index(square), value))
xor_owner(h, square, player_index) == XOR(h, owner_table(square2index(square), player_index))
xor_taboo(h, square, value) == XOR(h, taboo_table(square2index(square), value))
xor_side_to_move(h) == XOR(h, side_to_move)

apply_move(h, move, player) ==
    LET h1 == xor_square_value(h, move.square, move.value)
        idx == IF player = 1 THEN 0 ELSE 1
        h2 == xor_owner(h1, move.square, idx)
    IN  xor_side_to_move(h2)

\* mutant of undo_move: the ownership key is not taken out
undo_move_keeps_owner(h, move, player) ==
    LET h1 == xor_side_to_move(h)
    IN  xor_square_value(h1, move.square, move.value)

undo_move(h, move, player) ==
    LET h1 == xor_side_to_move(h)
        idx == IF player = 1 THEN 0 ELSE 1
        h2 == xor_owner(h1, move.square, idx)
    IN  xor_square_value(h2, move.square, move.value)

-----------------------------------------------------------------------------
(* Inputs: the states and calls the search is started on                   *)

MaxDepth == 4
MaxCalls == 2

\* a solved grid for any m, n; the root boards are this grid with the
\* squares of EmptiedSquares cleared
SolvedValue(i, j) == ((n * (i % m) + (i \div m) + j) % N) + 1

EmptiedSquares == { << 0, 1 >>, << 1, 2 >>, << 2, 2 >>, << 2, 3 >>, << 3, 3 >> }

RootBoard ==
    [k \in 0 .. N * N - 1 |->
        IF << k \div N, k % N >> \in EmptiedSquares THEN empty
        ELSE SolvedValue(k \div N, k % N)]

\* allowed_squares1 / allowed_squares2: classic game or territories
AllowedChoices ==
    { << None, None >> } \cup
    { << Some(a1), Some(a2) >> :
        a1 \in { EmptiedSquares, EmptiedSquares \ { << 2, 3 >> } },
        a2 \in { { << 0, 1 >>, << 2, 2 >> }, EmptiedSquares \ { << 0, 1 >> }, { } } }

TabooChoices ==
    { << >>, << TabooMove(<< 2, 2 >>, 1), TabooMove(<< 0, 0 >>, 3) >> }

ScoreChoices == { << 2, 1 >> }

RootStates ==
    { [board |-> RootBoard,
       current_player |-> p,
       scores |-> sc,
       taboo_moves |-> tb,
       allowed_squares1 |-> al[1],
       allowed_squares2 |-> al[2],
       occupied_squares1 |-> << << 0, 0 >>, << 1, 1 >> >>,
       occupied_squares2 |-> << << 0, 2 >> >>] :
        p \in { 1, 2 }, sc \in ScoreChoices, tb \in TabooChoices, al \in AllowedChoices }

-----------------------------------------------------------------------------
(* Alpha-beta search (search.py)                                           *)

\* mutant of make_move: the mover is credited a point for the move
make_move_scoring(gs, move) ==
    [gs EXCEPT !.board = put(gs.board, move.square, move.value),
               !.current_player = 3 - gs.current_player,
               !.scores[gs.current_player] = @ + 1]

make_move(gs, move) ==
    [gs EXCEPT !.board = put(gs.board, move.square, move.value),
               !.current_player = 3 - gs.current_player]

\* mutant of unmake_move: the side to move is not put back
unmake_move_keeps_player(gs, move, previous_player) ==
    [gs EXCEPT !.board = put(gs.board, move.square, empty)]

unmake_move(gs, move, previous_player) ==
    [gs EXCEPT !.board = put(gs.board, move.square, empty),
               !.current_player = previous_player]

\* mutant of DepthSufficient: any stored entry is used
DepthSufficient_any(stored_depth, depth) == stored_depth >= 0

\* mutant of DepthSufficient: the comparison is turned around
DepthSufficient_reversed(stored_depth, depth) == stored_depth <= depth

\* line 127: a stored entry is used when it was searched deep enough
DepthSufficient(stored_depth, depth) == stored_depth >= depth

\* mutant of Cutoff: the operands of the comparison are exchanged
Cutoff_swapped(alpha, beta) == LessEq(alpha, beta)

\* lines 153 and 170: the pruning test
Cutoff(alpha, beta) == LessEq(beta, alpha)

\* mutant of Improves: a root move of equal value replaces the best one
Improves_or_equal(evaluation, best_evaluation) == LessEq(best_evaluation, evaluation)

\* line 203: a root move replaces the best one
Improves(evaluation, best_evaluation) == Less(best_evaluation, evaluation)

\* self.tt[key] = (depth, value)
TTStore(t, key, depth, value) ==
    [k \in DOMAIN t \cup { key } |->
        IF k = key THEN [depth |-> depth, value |-> value] ELSE t[k]]

Frame(fn, depth, alpha, beta, maximizing_player, original_player, gs) ==
    [fn |-> fn, pc |-> "enter", depth |-> depth, alpha |-> alpha, beta |-> beta,
     maximizing_player |-> maximizing_player, original_player |-> original_player,
     current_moves |-> << >>, i |-> 0, best |-> NegInf, best_move |-> None,
     key |-> None, previous_player |-> 0, move |-> None,
     node |-> gs, alpha0 |-> alpha, beta0 |-> beta]

NoReturn == [frame |-> Frame("none", -1, NegInf, PosInf, FALSE, 0, << >>),
             value |-> NegInf, how |-> "none"]

top == stack[Len(stack)]
rest == SubSeq(stack, 1, Len(stack) - 1)
Running(fn, pc) == stack # << >> /\ top.fn = fn /\ top.pc = pc
SetTop(f) == stack' = [stack EXCEPT ![Len(stack)] = f]

\* an alpha_beta call returns value v to its caller
ReturnValue(v, how) ==
    /\ stack' = rest
    /\ ret' = v
    /\ returned' = [frame |-> top, value |-> v, how |-> how]
    /\ result' = IF rest = << >> THEN [move |-> None, value |-> v] ELSE result

\* compute_best_move is not running
CBMIdle == [pc |-> "idle", all_moves |-> << >>, best_move |-> None,
            best_evaluation |-> NegInf, original_player |-> 0]

Init ==
    /\ \E root \in RootStates, d \in 1 .. MaxDepth,
          fn \in { "find_best_move", "alpha_beta" } :
          /\ game_state = root
          /\ call = [fn |-> fn, depth |-> d, state |-> root]
          /\ stack = << Frame(fn, d, NegInf, PosInf, TRUE, root.current_player, root) >>
    /\ use_tt \in BOOLEAN
    /\ tt = << >>
    /\ tt_probes = 0 /\ tt_hits = 0 /\ tt_stores = 0
    /\ ret = NegInf
    /\ result = [move |-> None, value |-> NegInf]
    /\ returned = NoReturn
    /\ root_values = << >>
    /\ n_evals = 0 /\ n_cutoffs = 0
    /\ n_calls = 1
    /\ cbm = CBMIdle
    /\ proposed = << >>

Done == stack = << >>

\* the owner of the search calls find_best_move again, at any depth, on the
\* state as it is now; the table keeps its entries (clear_tt is not called)
NewCall ==
    /\ Done
    /\ use_tt
    /\ call.fn = "find_best_move"
    /\ n_calls < MaxCalls
    /\ \E d \in 1 .. MaxDepth :
          /\ call' = [fn |-> "find_best_move", depth |-> d, state |-> game_state]
          /\ stack' = << Frame("find_best_move", d, NegInf, PosInf, TRUE,
                               game_state.current_player, game_state) >>
    /\ root_values' = << >>
    /\ n_calls' = n_calls + 1
    /\ UNCHANGED << game_state, ret, result, tt, use_tt, tt_probes, tt_hits,
                    tt_stores, returned, n_evals, n_cutoffs >>
    /\ UNCHANGED << cbm, proposed >>

\* lines 113-129: generate the moves, probe the table
ABProbe ==
    /\ Running("alpha_beta", "enter")
    /\ LET current_moves == get_all_allowed_moves(game_state)
           key == IF use_tt
                  THEN Some(<< compute_hash(game_state), top.original_player >>)
                  ELSE None
           hit == /\ use_tt
                  /\ key[1] \in DOMAIN tt
                  /\ DepthSufficient(tt[key[1]].depth, top.depth)
           leaf == top.depth = 0 \/ current_moves = << >>
       IN  /\ tt_probes' = IF use_tt THEN tt_probes + 1 ELSE tt_probes
           /\ IF hit
              THEN /\ tt_hits' = tt_hits + 1
                   /\ ReturnValue(tt[key[1]].value, "hit")
              ELSE /\ SetTop([top EXCEPT
                        !.current_moves = current_moves,
                        !.key = key,
                        !.pc = IF leaf THEN "base" ELSE "loop",
                        !.i = 1,
                        !.best = IF top.maximizing_player THEN NegInf ELSE PosInf])
                   /\ UNCHANGED << tt_hits, ret, returned, result >>
    /\ UNCHANGED << game_state, tt, use_tt, tt_stores, call, root_values,
                    n_evals, n_cutoffs, n_calls >>
    /\ UNCHANGED << cbm, proposed >>

\* lines 132-141: depth limit or no move, evaluate the leaf
ABLeaf ==
    /\ Running("alpha_beta", "base")
    /\ LET ev == evaluate_state(game_state, top.original_player)
       IN  /\ game_state' = ev.game_state
           /\ n_evals' = n_evals + 1
           /\ IF use_tt /\ top.key # None
              THEN /\ tt' = TTStore(tt, top.key[1], top.depth, ev.value)
                   /\ tt_stores' = tt_stores + 1
              ELSE UNCHANGED << tt, tt_stores >>
           /\ ReturnValue(ev.value, "leaf")
    /\ UNCHANGED << use_tt, tt_probes, tt_hits, call, root_values, n_cutoffs, n_calls >>
    /\ UNCHANGED << cbm, proposed >>

\* lines 145-148 / 162-165: apply the next move and search the child
ABNext ==
    /\ Running("alpha_beta", "loop")
    /\ LET move == top.current_moves[top.i]
           child == Frame("alpha_beta", top.depth - 1, top.alpha, top.beta,
                          ~ top.maximizing_player, top.original_player,
                          make_move(game_state, move))
       IN  /\ game_state' = make_move(game_state, move)
           /\ stack' = Append([stack EXCEPT ![Len(stack)] =
                                  [top EXCEPT !.previous_player = game_state.current_player,
                                              !.move = Some(move),
                                              !.pc = "ret"]],
                              child)
    /\ UNCHANGED << ret, result, tt, use_tt, tt_probes, tt_hits, tt_stores, call,
                    returned, root_values, n_evals, n_cutoffs, n_calls >>
    /\ UNCHANGED << cbm, proposed >>

\* lines 149-154 / 166-171: undo the move, fold the child's value, prune
ABRet ==
    /\ Running("alpha_beta", "ret")
    /\ LET best == IF top.maximizing_player THEN max(top.best, ret) ELSE min(top.best, ret)
           alpha == IF top.maximizing_player THEN max(top.alpha, ret) ELSE top.alpha
           beta == IF top.maximizing_player THEN top.beta ELSE min(top.beta, ret)
           last == top.i = Len(top.current_moves)
       IN  /\ game_state' = unmake_move(game_state, top.move[1], top.previous_player)
           /\ SetTop([top EXCEPT !.best = best, !.alpha = alpha, !.beta = beta,
                                 !.pc = IF Cutoff(alpha, beta) \/ last THEN "store" ELSE "loop",
                                 !.i = top.i + 1])
           /\ n_cutoffs' = IF Cutoff(alpha, beta) /\ ~ last THEN n_cutoffs + 1 ELSE n_cutoffs
    /\ UNCHANGED << ret, result, tt, use_tt, tt_probes, tt_hits, tt_stores, call,
                    returned, root_values, n_evals, n_calls >>
    /\ UNCHANGED << cbm, proposed >>

\* lines 155-159 / 172-176: store the node's value and return it
ABStore ==
    /\ Running("alpha_beta", "store")
    /\ IF use_tt /\ top.key # None
       THEN /\ tt' = TTStore(tt, top.key[1], top.depth, top.best)
            /\ tt_stores' = tt_stores + 1
       ELSE UNCHANGED << tt, tt_stores >>
    /\ ReturnValue(top.best, "search")
    /\ UNCHANGED << game_state, use_tt, tt_probes, tt_hits, call, root_values,
                    n_evals, n_cutoffs, n_calls >>
    /\ UNCHANGED << cbm, proposed >>

\* lines 186-193: generate the root moves; no move, return the sentinel
FBMEnter ==
    /\ Running("find_best_move", "enter")
    /\ LET all_moves == get_all_allowed_moves(game_state)
       IN  IF all_moves = << >>
           THEN /\ stack' = rest
                /\ result' = [move |-> None, value |-> NegInf]
           ELSE /\ SetTop([top EXCEPT !.current_moves = all_moves,
                                      !.best_move = Some(all_moves[1]),
                                      !.best = NegInf,
                                      !.original_player = game_state.current_player,
                                      !.i = 1,
                                      !.pc = "loop"])
                /\ UNCHANGED result
    /\ UNCHANGED << game_state, ret, tt, use_tt, tt_probes, tt_hits, tt_stores, call,
                    returned, root_values, n_evals, n_cutoffs, n_calls >>
    /\ UNCHANGED << cbm, proposed >>

\* lines 195-200: apply the root move and search it one ply shallower
FBMNext ==
    /\ Running("find_best_move", "loop")
    /\ LET move == top.current_moves[top.i]
           child == Frame("alpha_beta", top.depth - 1, NegInf, PosInf, FALSE,
                          top.original_player, make_move(game_state, move))
       IN  /\ game_state' = make_move(game_state, move)
           /\ stack' = Append([stack EXCEPT ![Len(stack)] =
                                  [top EXCEPT !.previous_player = game_state.current_player,
                                              !.move = Some(move),
                                              !.pc = "ret"]],
                              child)
    /\ UNCHANGED << ret, result, tt, use_tt, tt_probes, tt_hits, tt_stores, call,
                    returned, root_values, n_evals, n_cutoffs, n_calls >>
    /\ UNCHANGED << cbm, proposed >>

\* lines 201-205: undo the root move, keep it when it is strictly better
FBMRet ==
    /\ Running("find_best_move", "ret")
    /\ LET better == Improves(ret, top.best)
           last == top.i = Len(top.current_moves)
       IN  /\ game_state' = unmake_move(game_state, top.move[1], top.previous_player)
           /\ SetTop([top EXCEPT !.best = IF better THEN ret ELSE top.best,
                                 !.best_move = IF better THEN top.move ELSE top.best_move,
                                 !.pc = IF last THEN "return" ELSE "loop",
                                 !.i = top.i + 1])
           /\ root_values' = Append(root_values, ret)
    /\ UNCHANGED << ret, result, tt, use_tt, tt_probes, tt_hits, tt_stores, call,
                    returned, n_evals, n_cutoffs, n_calls >>
    /\ UNCHANGED << cbm, proposed >>

\* line 207: return best_move, best_evaluation
FBMReturn ==
    /\ Running("find_best_move", "return")
    /\ stack' = rest
    /\ result' = [move |-> top.best_move, value |-> top.best]
    /\ UNCHANGED << game_state, ret, tt, use_tt, tt_probes, tt_hits, tt_stores, call,
                    returned, root_values, n_evals, n_cutoffs, n_calls >>
    /\ UNCHANGED << cbm, proposed >>

Next ==
    \/ ABProbe
    \/ ABLeaf
    \/ ABNext
    \/ ABRet
    \/ ABStore
    \/ FBMEnter
    \/ FBMNext
    \/ FBMRet
    \/ FBMReturn
    \/ NewCall

Spec == Init /\ [][Next]_vars

\* one call of find_best_move or alpha_beta, from its start to its return
NextSearch ==
    \/ ABProbe
    \/ ABLeaf
    \/ ABNext
    \/ ABRet
    \/ ABStore
    \/ FBMEnter
    \/ FBMNext
    \/ FBMRet
    \/ FBMReturn

SpecSearch == Init /\ [][NextSearch]_vars

-----------------------------------------------------------------------------
(* The agent's entry point compute_best_move (sudokuai.py)                 *)

search_depth == 8

\* what an AlphaBetaSearch object answers to: its methods and its fields
AlphaBetaSearchAttributes ==
    { "__init__", "make_move", "unmake_move", "_ensure_zobrist", "clear_tt",
      "tt_stats", "print_tt_stats", "alpha_beta", "find_best_move",
      "evaluator", "move_generator", "use_tt", "tt", "zobrist",
      "tt_probes", "tt_hits", "tt_stores" }

\* load(): None when there is no file or reading it fails, else the table
\* an earlier run saved; here a table with one entry for the state gs
load(gs) ==
    { None,
      Some(TTStore(<< >>, << compute_hash(gs), gs.current_player >>, 1, RInt(10))) }

\* lines 38-46 and 188-195: a loaded dict replaces the table
Loaded(t, tt_data) == IF tt_data # None THEN tt_data[1] ELSE t

\* mutant of random_choice: the fallback is drawn from all squares and values
random_choice_any_square(all_moves) == [square : Squares, value : 1 .. N]

\* random.choice(all_moves): any element of the list
random_choice(all_moves) == SeqToSet(all_moves)

\* propose_move(move): the host keeps the proposals in the order made and
\* reads the most recent one
propose_move(history, move) == Append(history, move)

\* SudokuAI.__init__ (lines 31-46) followed by the host's call of
\* compute_best_move(game_state)
InitCBM ==
    /\ \E root \in RootStates :
          /\ game_state = root
          /\ call = [fn |-> "compute_best_move", depth |-> search_depth, state |-> root]
          /\ \E tt_data \in load(root) : tt = Loaded(<< >>, tt_data)
    /\ stack = << >>
    /\ use_tt = TRUE
    /\ tt_probes = 0 /\ tt_hits = 0 /\ tt_stores = 0
    /\ ret = NegInf
    /\ result = [move |-> None, value |-> NegInf]
    /\ returned = NoReturn
    /\ root_values = << >>
    /\ n_evals = 0 /\ n_cutoffs = 0
    /\ n_calls = 0
    /\ cbm = [CBMIdle EXCEPT !.pc = "start"]
    /\ proposed = << >>

\* lines 179-182: generate the moves; return when there is none
CBMGenerate ==
    /\ cbm.pc = "start"
    /\ LET all_moves == get_all_allowed_moves(game_state)
       IN  cbm' = [cbm EXCEPT !.all_moves = all_moves,
                              !.pc = IF all_moves = << >> THEN "returned" ELSE "propose"]
    /\ UNCHANGED << game_state, stack, ret, result, tt, use_tt, tt_probes, tt_hits,
                    tt_stores, call, returned, root_values, n_evals, n_cutoffs,
                    n_calls, proposed >>

\* lines 184-186: propose a random move at once
CBMPropose ==
    /\ cbm.pc = "propose"
    /\ \E best_move \in random_choice(cbm.all_moves) :
          /\ cbm' = [cbm EXCEPT !.best_move = Some(best_move), !.pc = "load"]
          /\ proposed' = propose_move(proposed, best_move)
    /\ UNCHANGED << game_state, stack, ret, result, tt, use_tt, tt_probes, tt_hits,
                    tt_stores, call, returned, root_values, n_evals, n_cutoffs,
                    n_calls >>

\* lines 188-195: an empty table is filled from the saved file, if any
CBMLoad ==
    /\ cbm.pc = "load"
    /\ IF tt = << >>
       THEN \E tt_data \in load(game_state) : tt' = Loaded(tt, tt_data)
       ELSE UNCHANGED tt
    /\ cbm' = [cbm EXCEPT !.pc = "search"]
    /\ UNCHANGED << game_state, stack, ret, result, use_tt, tt_probes, tt_hits,
                    tt_stores, call, returned, root_values, n_evals, n_cutoffs,
                    n_calls, proposed >>

\* lines 198-203: the loop over all_moves starts; its first statement asks
\* the search object for simulate_move, which AlphaBetaSearch does not have:
\* AttributeError leaves compute_best_move (lines 204-229 are not reached)
CBMSearch ==
    /\ cbm.pc = "search"
    /\ cbm.all_moves # << >>
    /\ "simulate_move" \notin AlphaBetaSearchAttributes
    /\ cbm' = [cbm EXCEPT !.best_evaluation = NegInf,
                          !.original_player = game_state.current_player,
                          !.pc = "failed"]
    /\ UNCHANGED << game_state, stack, ret, result, tt, use_tt, tt_probes, tt_hits,
                    tt_stores, call, returned, root_values, n_evals, n_cutoffs,
                    n_calls, proposed >>

NextCBM ==
    \/ CBMGenerate
    \/ CBMPropose
    \/ CBMLoad
    \/ CBMSearch

SpecCBM == InitCBM /\ [][NextCBM]_vars

-----------------------------------------------------------------------------
(* Claims                                                                  *)

\* the four legality conditions of a move, stated on the board's rows,
\* columns and regions
SameUnit(a, b) ==
    \/ a[1] = b[1]
    \/ a[2] = b[2]
    \/ (a[1] \div m = b[1] \div m /\ a[2] \div n = b[2] \div n)

LegalMove(gs, sq, v) ==
    /\ gs.board[N * sq[1] + sq[2]] = 0
    /\ LET allowed == IF gs.current_player = 1 THEN gs.allowed_squares1
                      ELSE gs.allowed_squares2
       IN  allowed = << >> \/ sq \in allowed[1]
    /\ \A x \in 1 .. Len(gs.taboo_moves) :
          ~ (gs.taboo_moves[x].square = sq /\ gs.taboo_moves[x].value = v)
    /\ \A other \in Squares :
          SameUnit(sq, other) => gs.board[N * other[1] + other[2]] # v

MoveBefore(a, b) ==
    \/ a.square[1] < b.square[1]
    \/ (a.square[1] = b.square[1] /\ a.square[2] < b.square[2])
    \/ (a.square = b.square /\ a.value < b.value)

ExactlyTheLegalMoves(moves, gs) ==
    /\ SeqToSet(moves) =
          { mv \in [square : Squares, value : 1 .. N] :
               LegalMove(gs, mv.square, mv.value) }
    /\ \A x \in 1 .. Len(moves) : \A y \in 1 .. Len(moves) :
          x < y => MoveBefore(moves[x], moves[y])

\* a call has just generated the moves of the state it was made on
JustGenerated == stack # << >> /\ top.pc \in { "base", "loop" } /\ top.i = 1

\* C1: get_all_allowed_moves returns exactly the legal moves of the side to
\* move (empty square, inside the mover's allowed squares or no restriction,
\* not taboo, value absent from row, column and region), in row-major square
\* order and ascending value order, nothing missing and nothing twice.
C1_GeneratorExact ==
    JustGenerated => ExactlyTheLegalMoves(top.current_moves, game_state)

\* C1 witness: the generator ran on a restricted state with a taboo entry on
\* an empty square, left out a square outside the territory and produced
\* at least two moves.
C1_Witness ==
    /\ JustGenerated
    /\ player_squares(game_state) # None
    /\ \E sq \in Squares : /\ get(game_state.board, sq) = empty
                           /\ sq \notin player_squares(game_state)[1]
    /\ \E x \in 1 .. Len(game_state.taboo_moves) :
          get(game_state.board, game_state.taboo_moves[x].square) = empty
    /\ Len(top.current_moves) >= 2


\* full minimax without pruning: same generator, evaluator, depth, root player
RECURSIVE minimax(_, _, _, _)
minimax(gs, depth, maximizing_player, original_player) ==
    LET moves == get_all_allowed_moves(gs)
        values == { minimax(make_move(gs, moves[x]), depth - 1,
                            ~ maximizing_player, original_player) :
                      x \in 1 .. Len(moves) }
    IN  IF depth = 0 \/ moves = << >>
        THEN evaluate_state(gs, original_player).value
        ELSE IF maximizing_player
             THEN CHOOSE v \in values : \A w \in values : LessEq(w, v)
             ELSE CHOOSE v \in values : \A w \in values : LessEq(v, w)

\* an alpha_beta call has returned and its caller has not resumed yet
JustReturned == returned.how # "none" /\ (stack = << >> \/ top.pc = "ret")

FullWindow(frame) == frame.alpha0 = NegInf /\ frame.beta0 = PosInf

\* C2: with the table disabled, an alpha_beta call made with the window
\* (-infinity, +infinity) at depth 1..MaxDepth returns the value of a full
\* unpruned minimax of the state it was called on.
C2_AlphaBetaIsMinimax ==
    (/\ ~ use_tt
     /\ JustReturned
     /\ FullWindow(returned.frame)
     /\ returned.frame.depth >= 1)
    => returned.value = minimax(returned.frame.node, returned.frame.depth,
                                returned.frame.maximizing_player,
                                returned.frame.original_player)

\* C2 witness: a full-window call of depth >= 3 returned after pruning
\* happened below it, with moves of different value to choose from.
C2_Witness ==
    /\ ~ use_tt
    /\ Done
    /\ call.fn = "alpha_beta"
    /\ call.depth >= 3
    /\ n_cutoffs > 0
    /\ returned.value # evaluate_state(call.state, call.state.current_player).value


\* alpha_beta and find_best_move as they run with use_tt = False: no probe,
\* no store, the remaining code unchanged
RECURSIVE alpha_beta_no_tt(_, _, _, _, _, _)
RECURSIVE SearchMoves(_, _, _, _, _, _, _, _, _)
alpha_beta_no_tt(gs, depth, alpha, beta, maximizing_player, original_player) ==
    LET current_moves == get_all_allowed_moves(gs)
    IN  IF depth = 0 \/ current_moves = << >>
        THEN evaluate_state(gs, original_player).value
        ELSE SearchMoves(gs, current_moves, 1, depth, alpha, beta,
                         IF maximizing_player THEN NegInf ELSE PosInf,
                         maximizing_player, original_player)

SearchMoves(gs, moves, x, depth, alpha, beta, best, maximizing_player, original_player) ==
    IF x > Len(moves) THEN best
    ELSE LET eval_score == alpha_beta_no_tt(make_move(gs, moves[x]), depth - 1, alpha, beta,
                                            ~ maximizing_player, original_player)
             new_best == IF maximizing_player THEN max(best, eval_score)
                         ELSE min(best, eval_score)
             new_alpha == IF maximizing_player THEN max(alpha, eval_score) ELSE alpha
             new_beta == IF maximizing_player THEN beta ELSE min(beta, eval_score)
         IN  IF Cutoff(new_alpha, new_beta) THEN new_best
             ELSE SearchMoves(gs, moves, x + 1, depth, new_alpha, new_beta, new_best,
                              maximizing_player, original_player)

RECURSIVE RootMoves(_, _, _, _, _)
RootMoves(gs, all_moves, x, depth, best) ==
    IF x > Len(all_moves) THEN best
    ELSE LET evaluation == alpha_beta_no_tt(make_move(gs, all_moves[x]), depth - 1,
                                            NegInf, PosInf, FALSE, gs.current_player)
         IN  RootMoves(gs, all_moves, x + 1, depth,
                       IF Improves(evaluation, best.value)
                       THEN [move |-> Some(all_moves[x]), value |-> evaluation]
                       ELSE best)

find_best_move_no_tt(gs, depth) ==
    LET all_moves == get_all_allowed_moves(gs)
    IN  IF all_moves = << >> THEN [move |-> None, value |-> NegInf]
        ELSE RootMoves(gs, all_moves, 1, depth,
                       [move |-> Some(all_moves[1]), value |-> NegInf])

\* C3: find_best_move with the table enabled, started on an empty table,
\* returns the same evaluation value as find_best_move with the table
\* disabled on the same state and depth.
C3_TableKeepsValue ==
    (use_tt /\ Done /\ n_calls = 1 /\ call.fn = "find_best_move")
    => result.value = find_best_move_no_tt(call.state, call.depth).value


\* the key alpha_beta probes the table with, for the running call
ProbeKey == << compute_hash(game_state), top.original_player >>

\* the entry of a key, if the table has one
Entry(key) == IF key \in DOMAIN tt THEN Some(tt[key]) ELSE None

\* C4: the step of an alpha_beta call that probes the table returns the stored
\* value, without evaluating, storing or recursing, exactly when the table
\* has an entry for (hash, root player) whose depth is >= the remaining
\* depth; with a shallower entry or none the call goes on as a miss and
\* returns nothing at that step.
C4_DepthGatedHit ==
    [][ (Running("alpha_beta", "enter") /\ use_tt /\ stack' # stack) =>
          IF Entry(ProbeKey) # None /\ Entry(ProbeKey)[1].depth >= top.depth
          THEN /\ stack' = rest
               /\ ret' = Entry(ProbeKey)[1].value
               /\ n_evals' = n_evals
               /\ tt' = tt
               /\ game_state' = game_state
          ELSE /\ Len(stack') = Len(stack)
               /\ stack'[Len(stack)].pc \in { "base", "loop" }
               /\ ret' = ret
               /\ returned' = returned ]_vars

\* C4 witness: a call found an entry shallower than its remaining depth and
\* went on as a miss, after an earlier call had returned an entry's value.
C4_Witness ==
    /\ use_tt
    /\ tt_hits > 0
    /\ stack # << >>
    /\ top.fn = "alpha_beta"
    /\ top.pc \in { "base", "loop" }
    /\ top.i = 1
    /\ Entry(top.key[1]) # None
    /\ Entry(top.key[1])[1].depth < top.depth


\* the orders in which the entries of a list can have been appended
Orders(s) == { t \in [1 .. Len(s) -> SeqToSet(s)] : SeqToSet(t) = SeqToSet(s) }

\* the states a different history of the same game can have left behind:
\* the same marks and taboo entries recorded in another order, other scores
Histories(gs) ==
    { [gs EXCEPT !.occupied_squares1 = o1, !.occupied_squares2 = o2,
                 !.taboo_moves = tb, !.scores = sc] :
        o1 \in Orders(gs.occupied_squares1), o2 \in Orders(gs.occupied_squares2),
        tb \in Orders(gs.taboo_moves), sc \in ScoreChoices }

SameContent(a, b) ==
    /\ a.board = b.board
    /\ SeqToSet(a.occupied_squares1) = SeqToSet(b.occupied_squares1)
    /\ SeqToSet(a.occupied_squares2) = SeqToSet(b.occupied_squares2)
    /\ SeqToSet(a.taboo_moves) = SeqToSet(b.taboo_moves)
    /\ a.current_player = b.current_player

\* C5: states with identical board contents, ownership marks, taboo set and
\* side to move have the same hash, whatever the order in which the moves,
\* marks and taboo entries that produced them were played and recorded.
\* Checked on the states the first call enters; later calls start from the
\* same root and enter no other state.
C5_HashIgnoresHistory ==
    (Running("alpha_beta", "enter") /\ n_calls = 1) =>
       LET h == compute_hash(game_state)
       IN  \A other \in Histories(game_state) :
              SameContent(game_state, other) => compute_hash(other) = h

\* C5 witness: within one search the state to hash was reached before by
\* another order of the same moves (its key is already in the table), and
\* its taboo and ownership lists have more than one order.
C5_Witness ==
    /\ Running("alpha_beta", "enter")
    /\ use_tt
    /\ n_calls = 1
    /\ Len(stack) >= 3
    /\ ProbeKey \in DOMAIN tt
    /\ Len(game_state.taboo_moves) >= 2
    /\ Len(game_state.occupied_squares1) >= 2


AllMoves == [square : Squares, value : 1 .. N]

\* C6: for the hash h of every state the search hashes, every move and
\* every player, undo_move(apply_move(h, move, player), move, player) = h.
\* Checked on the states the first call enters; later calls start from the
\* same root and enter no other state.
C6_UndoInvertsApply ==
    (Running("alpha_beta", "enter") /\ n_calls = 1) =>
       LET h == compute_hash(game_state)
       IN  \A move \in AllMoves : \A player \in { 1, 2 } :
              undo_move(apply_move(h, move, player), move, player) = h

\* C6 witness: the search has made a move and hashes the state; applying
\* that move to the hash of the state before changes the hash, undoing it
\* gives the hash back.
C6_Witness ==
    /\ Running("alpha_beta", "enter")
    /\ n_calls = 1
    /\ Len(stack) >= 2
    /\ LET caller == stack[Len(stack) - 1]
           before == compute_hash(caller.node)
           after == apply_move(before, caller.move[1], caller.previous_player)
       IN  /\ after # before
           /\ undo_move(after, caller.move[1], caller.previous_player) = before

\* C7: for every state the search is about to move from and every legal
\* move mv of the side to move p, apply_move(compute_hash(s), mv, p) equals
\* compute_hash of the state make_move(s, mv) produces.
C7_IncrementalMatchesFull ==
    (stack # << >> /\ top.pc = "loop") =>
       \A x \in 1 .. Len(top.current_moves) :
          apply_move(compute_hash(game_state), top.current_moves[x],
                     game_state.current_player)
             = compute_hash(make_move(game_state, top.current_moves[x]))


\* the largest of the values found for the root moves
BestRootValue == CHOOSE v \in SeqToSet(root_values) :
                    \A w \in SeqToSet(root_values) : LessEq(w, v)

\* C8: find_best_move returns the maximum of the child search values of the
\* root moves together with the earliest root move, in generator order, that
\* attains it (so the first generated move when all values are equal); with
\* no legal move at the root it returns (None, -infinity).
C8_FirstBestMove ==
    (Done /\ call.fn = "find_best_move") =>
       LET all_moves == get_all_allowed_moves(call.state)
       IN  IF all_moves = << >>
           THEN result = [move |-> None, value |-> NegInf]
           ELSE /\ Len(root_values) = Len(all_moves)
                /\ result.value = BestRootValue
                /\ \E x \in 1 .. Len(all_moves) :
                      /\ result.move = Some(all_moves[x])
                      /\ root_values[x] = BestRootValue
                      /\ \A y \in 1 .. x - 1 : root_values[y] # BestRootValue

\* C8 witness: find_best_move returned with the best value attained by two
\* root moves and a root move of lower value generated before them.
C8_Witness ==
    /\ Done
    /\ call.fn = "find_best_move"
    /\ \E x \in 1 .. Len(root_values) : \E y \in 1 .. Len(root_values) :
          /\ x < y
          /\ root_values[x] = result.value
          /\ root_values[y] = result.value
          /\ Less(root_values[1], result.value)

\* the same state with the other side to move
OtherSideToMove(gs) == [gs EXCEPT !.current_player = 3 - gs.current_player]

\* C9: evaluate_state is expressed from the root player's perspective: on
\* every state the search evaluates, and for either root player, it returns
\* the same value for the state and for the state that differs from it only
\* in the side to move.  Checked on the states the first call evaluates;
\* later calls start from the same root and evaluate no other state.
C9_EvaluationIgnoresSideToMove ==
    (Running("alpha_beta", "base") /\ n_calls = 1) =>
       \A root_player \in { 1, 2 } :
          evaluate_state(game_state, root_player).value
             = evaluate_state(OtherSideToMove(game_state), root_player).value

\* C9 witness: the search is about to evaluate a state in which the two
\* sides have different moves and the evaluation is not the score term alone.
C9_Witness ==
    /\ Running("alpha_beta", "base")
    /\ n_calls = 1
    /\ get_all_allowed_moves(game_state)
          # get_all_allowed_moves(OtherSideToMove(game_state))
    /\ evaluate_state(game_state, top.original_player).value
          # RInt(W_SCORE * (game_state.scores[top.original_player]
                              - game_state.scores[3 - top.original_player]))

\* C10: when find_best_move returns, the board and the side to move are what
\* they were when it was called.
C10_StateRestored ==
    (Done /\ call.fn = "find_best_move") =>
       /\ game_state.board = call.state.board
       /\ game_state.current_player = call.state.current_player

\* C10 witness: a first find_best_move of depth >= 2 returned after leaf
\* evaluations, table hits and pruning breaks all occurred.
C10_Witness ==
    /\ Done
    /\ call.fn = "find_best_move"
    /\ call.depth >= 2
    /\ n_calls = 1
    /\ n_evals > 0
    /\ tt_hits > 0
    /\ n_cutoffs > 0

\* square x of row u, of column u, of region u
RowSquare(u, x) == << u, x >>
ColumnSquare(u, x) == << x, u >>
RegionSquare(u, x) == << ((u \div m) * m) + (x \div n), ((u % m) * n) + (x % n) >>

Differ(board, a, b) == get(board, a) = empty \/ get(board, a) # get(board, b)

\* no value stands twice in a row, a column or a region
NoDuplicate(board) ==
    \A u \in 0 .. N - 1 : \A x \in 0 .. N - 1 : \A y \in x + 1 .. N - 1 :
       /\ Differ(board, RowSquare(u, x), RowSquare(u, y))
       /\ Differ(board, ColumnSquare(u, x), ColumnSquare(u, y))
       /\ Differ(board, RegionSquare(u, x), RegionSquare(u, y))

\* C11: when the board of the state the search is called on has no value
\* twice in a row, column or region, the board of every state the search
\* visits (after each make_move, after each unmake_move) has none either.
C11_BoardStaysConsistent ==
    NoDuplicate(game_state.board) \/ ~ NoDuplicate(call.state.board)

\* C11 witness: the search stands three moves below a consistent root.
C11_Witness ==
    /\ NoDuplicate(call.state.board)
    /\ Len(stack) >= 4
    /\ Running("alpha_beta", "enter")
    /\ Cardinality({ sq \in Squares : get(game_state.board, sq)
                                        # get(call.state.board, sq) }) = 3

\* the call whose return the running call waits for has just returned from
\* its base case: evaluate_state was the last thing to touch the state
LeafJustReturned == stack # << >> /\ top.pc = "ret" /\ returned.how = "leaf"

\* C14: evaluate_state, called with a move generator, leaves the state as it
\* found it: the side to move after the call is the side to move before
\* the call, and board, scores, taboo moves and square sets are unchanged.
C14_EvaluateRestoresState ==
    LeafJustReturned => game_state = returned.frame.node

\* C15: over every sequence of calls on one AlphaBetaSearch whose table is
\* never cleared (every key of the key table a distinct bit, so distinct
\* states have distinct hashes), no entry leaves the table, the depth
\* recorded for a key never decreases, and a store over an existing entry
\* records a strictly greater depth.
C15_DepthNeverDecreases ==
    [][ /\ \A k \in DOMAIN tt :
             k \in DOMAIN tt' /\ tt'[k].depth >= tt[k].depth
        /\ (tt_stores' # tt_stores /\ top.key[1] \in DOMAIN tt)
              => tt'[top.key[1]].depth > tt[top.key[1]].depth ]_vars

\* C15 witness: in a later call a store has replaced the entry an earlier
\* call recorded for the same key at a smaller depth.
C15_Witness ==
    /\ n_calls >= 2
    /\ tt_stores > Cardinality(DOMAIN tt)
    /\ returned.how \in { "leaf", "search" }
    /\ returned.frame.key # None
    /\ returned.frame.key[1] \in DOMAIN tt
    /\ tt[returned.frame.key[1]].depth = returned.frame.depth
    /\ returned.frame.depth >= 2

\* the moves that stand on the board: one for every call that waits for the
\* search of the move it made
MovesMade == { stack[x].move[1] : x \in { y \in 1 .. Len(stack) : stack[y].pc = "ret" } }

\* the score-difference term of the evaluation (evaluation.py, line 263)
ScoreTerm(gs, original_player) ==
    W_SCORE * (gs.scores[original_player] - gs.scores[3 - original_player])

\* C16: during a search make_move and unmake_move change only the cell of
\* the move's square and the side to move: every cell holds the value of
\* the move that stands on it, or else what the root state holds; scores,
\* taboo moves, allowed and occupied squares are those of the root state;
\* and at every leaf the score-difference term of the evaluation is the
\* root's.
C16_OnlyCellAndSideToMove ==
    /\ game_state.scores = call.state.scores
    /\ game_state.taboo_moves = call.state.taboo_moves
    /\ game_state.allowed_squares1 = call.state.allowed_squares1
    /\ game_state.allowed_squares2 = call.state.allowed_squares2
    /\ game_state.occupied_squares1 = call.state.occupied_squares1
    /\ game_state.occupied_squares2 = call.state.occupied_squares2
    /\ \A mv \in MovesMade : get(game_state.board, mv.square) = mv.value
    /\ \A sq \in Squares :
          \/ get(game_state.board, sq) = get(call.state.board, sq)
          \/ \E mv \in MovesMade : mv.square = sq
    /\ Running("alpha_beta", "base")
          => ScoreTerm(game_state, top.original_player)
                = ScoreTerm(call.state, top.original_player)

\* C16 witness: a leaf three moves below the root is about to be evaluated,
\* in a state whose side to move is not the root's.
C16_Witness ==
    /\ Running("alpha_beta", "base")
    /\ Cardinality(MovesMade) = 3
    /\ game_state.board # call.state.board
    /\ game_state.current_player # call.state.current_player

\* the state compute_best_move was called on has a legal move
HasLegalMove(gs) == \E mv \in AllMoves : LegalMove(gs, mv.square, mv.value)

\* C12: in compute_best_move, when the root state has a legal move, a legal
\* move of the root state has been proposed once the first search call is
\* due, and from then on the most recently proposed move is a legal move of
\* the root state; when the root state has no legal move nothing is
\* proposed.
C12_FallbackProposedFirst ==
    /\ ~ HasLegalMove(call.state) => proposed = << >>
    /\ (HasLegalMove(call.state) /\ cbm.pc \notin { "start", "propose" })
          => proposed # << >>
    /\ proposed # << >>
          => LegalMove(call.state, proposed[Len(proposed)].square,
                       proposed[Len(proposed)].value)

\* C12 witness: the fallback move has been proposed, another legal move was
\* there to choose, and the search of the root moves is due.
C12_Witness ==
    /\ cbm.pc = "search"
    /\ Len(proposed) = 1
    /\ Len(cbm.all_moves) >= 2
    /\ proposed[1] # cbm.all_moves[1]

\* C13: when the root state has a legal move, compute_best_move neither
\* returns nor fails before it has evaluated every root move and reached
\* its final phase of re-proposing the best one.
C13_ReachesFinalPhase ==
    HasLegalMove(call.state) => cbm.pc \notin { "returned", "failed" }

====
